---------------------------- MODULE Spec2Model ----------------------------
(***************************************************************************)
(* A model of pyfr/polys.py: the orthonormal polynomial bases on the       *)
(* reference elements, their gradients, the Vandermonde matrix and the     *)
(* nodal bases derived from it.                                            *)
(*                                                                         *)
(* Numbers.  The program computes in mpmath extended precision and in      *)
(* double precision.  The model computes exactly, in the set of numbers    *)
(* (n/d)*sqrt(r) with n, d integers and r a squarefree positive integer:   *)
(* every value the line and quad bases take at a rational point is of      *)
(* this form.  A sum of two such numbers with different radicals is not    *)
(* of the form; it is the value Mixed, which every operation propagates.   *)
(***************************************************************************)
EXTENDS Integers, Sequences, FiniteSets, TLC

(***************************************************************************)
(* Exact arithmetic                                                        *)
(***************************************************************************)
Abs(x) == IF x < 0 THEN -x ELSE x

RECURSIVE Gcd(_, _)
Gcd(a, b) == IF b = 0 THEN a ELSE Gcd(b, a % b)

\* The largest s, from s downwards, with s*s dividing m (m >= 1).
RECURSIVE SquarePartFrom(_, _)
SquarePartFrom(m, s) ==
    IF s <= 1 THEN 1
    ELSE IF m % (s * s) = 0 THEN s
    ELSE SquarePartFrom(m, s - 1)

RECURSIVE ISqrtFrom(_, _)
ISqrtFrom(m, s) == IF (s + 1) * (s + 1) > m THEN s ELSE ISqrtFrom(m, s + 1)

SquarePart(m) == SquarePartFrom(m, ISqrtFrom(m, 1))

Zero == [n |-> 0, d |-> 1, r |-> 1]
\* Not of the form: a sum of different radicals (Mixed), a division by zero
\* (DivZero, Python's ZeroDivisionError).  Every operation propagates them.
Mixed == [n |-> 0, d |-> 0, r |-> 0]
DivZero == [n |-> 1, d |-> 0, r |-> 0]
IsBad(x) == x.d = 0

\* (n/d)*sqrt(r) in normal form: d > 0, gcd(n, d) = 1, r squarefree.
MkNum(n, d, r) ==
    IF n = 0 \/ r = 0 THEN Zero
    ELSE LET s  == SquarePart(r)
             n1 == (IF d < 0 THEN -n ELSE n) * s
             d1 == Abs(d)
             g  == Gcd(Abs(n1), d1)
         IN  [n |-> n1 \div g, d |-> d1 \div g, r |-> r \div (s * s)]

Rat(n, d) == MkNum(n, d, 1)
Int2Num(k) == Rat(k, 1)
One == Int2Num(1)

Neg(x) == IF IsBad(x) THEN x ELSE [x EXCEPT !.n = -x.n]

Mul(x, y) ==
    IF IsBad(x) THEN x
    ELSE IF IsBad(y) THEN y
    ELSE LET g == Gcd(x.r, y.r)
         IN  MkNum(x.n * y.n * g, x.d * y.d, (x.r \div g) * (y.r \div g))

Add(x, y) ==
    IF IsBad(x) THEN x
    ELSE IF IsBad(y) THEN y
    ELSE IF x.n = 0 THEN y
    ELSE IF y.n = 0 THEN x
    ELSE IF x.r = y.r THEN MkNum(x.n * y.d + y.n * x.d, x.d * y.d, x.r)
    ELSE Mixed

Sub(x, y) == Add(x, Neg(y))

\* x / y: 1/((n/d)*sqrt(r)) = (d/(n*r))*sqrt(r); y = 0 raises.
Div(x, y) ==
    IF IsBad(x) THEN x
    ELSE IF IsBad(y) THEN y
    ELSE IF y.n = 0 THEN DivZero
    ELSE Mul(x, MkNum(y.d, y.n * y.r, y.r))

\* mp.sqrt of a nonnegative rational: sqrt(n/d) = sqrt(n*d)/d.
Sqrt(x) == MkNum(1, x.d, x.n * x.d)

\* |x| < 1/k for a nonzero x of the form: with m = k*|n|, m*m*r < d*d.
AbsBelow(x, k) ==
    /\ ~IsBad(x)
    /\ x.n # 0
    /\ k * Abs(x.n) < x.d
    /\ x.r <= (x.d * x.d - 1) \div ((k * Abs(x.n)) * (k * Abs(x.n)))

(***************************************************************************)
(* Sequences as Python lists                                               *)
(***************************************************************************)
Min(a, b) == IF a < b THEN a ELSE b
Max(a, b) == IF a > b THEN a ELSE b

\* The one element of a one-element set.  An operator binds a value it
\* reads more than once as the element of such a set, and so computes it
\* once.
Only(S) == CHOOSE x \in S : TRUE

\* A list, a list of lists and a list of lists of lists with every element
\* computed: what a list comprehension or an array constructor builds
Tup(f) == f \o <<>>
Rows(f) == Tup([i \in 1..Len(f) |-> Tup(f[i])])
Planes(f) == Tup([a \in 1..Len(f) |-> Rows(f[a])])

\* list(range(n)), for n of any sign
Range(n) == [t \in 1..n |-> t - 1]

\* the concatenation of a sequence of sequences
RECURSIVE Flatten(_)
Flatten(ss) == IF ss = <<>> THEN <<>> ELSE Head(ss) \o Flatten(Tail(ss))

RECURSIVE SumSeq(_)
SumSeq(s) == IF s = <<>> THEN 0 ELSE Head(s) + SumSeq(Tail(s))

(***************************************************************************)
(* pyfr.mputil: the Jacobi polynomials P_q^(a,b)(z), q = 0..n, by the      *)
(* three-term recurrence, and their first derivatives.                     *)
(***************************************************************************)
RECURSIVE jacobi_from(_, _, _, _, _, _)
jacobi_from(n, a, b, z, j, q) ==
    IF q > n THEN j
    ELSE LET apb      == a + b
             bbmaa    == b * b - a * a
             qapbpq   == q * (apb + q)
             apbp2q   == apb + 2 * q
             apbp2qm1 == apbp2q - 1
             apbp2qm2 == apbp2q - 2
             aq == Rat(apbp2q * apbp2qm1, 2 * qapbpq)
             bq == Rat(apbp2qm1 * bbmaa, 2 * qapbpq * apbp2qm2)
             cq == Rat(apbp2q * (a + q - 1) * (b + q - 1), qapbpq * apbp2qm2)
             nx == Sub(Mul(Sub(Mul(aq, z), bq), j[Len(j)]),
                       Mul(cq, j[Len(j) - 1]))
         IN  jacobi_from(n, a, b, z, Append(j, nx), q + 1)

jacobi(n, a, b, z) ==
    LET j0 == <<One>>
        j1 == IF n >= 1
              THEN Append(j0, Div(Add(Mul(Int2Num(a + b + 2), z),
                                      Int2Num(a - b)), Int2Num(2)))
              ELSE j0
    IN  jacobi_from(n, a, b, z, j1, 2)

jacobi_diff(n, a, b, z) ==
    IF n >= 1
    THEN Only({ <<Zero>> \o [t \in 1..Len(jp) |->
                               Div(Mul(jp[t], Int2Num((t - 1) + a + b + 2)),
                                   Int2Num(2))]
                : jp \in {jacobi(n - 1, a + 1, b + 1, z)} })
    ELSE <<Zero>>

\* mp.sqrt(k + 0.5)
SqrtHalf(k) == Sqrt(Rat(2 * k + 1, 2))

(***************************************************************************)
(* LinePolyBasis                                                           *)
(***************************************************************************)
\* A slip: jacobi called with order, one polynomial too many.
LinePolyBasis_ortho_basis_at_mp_to_order(order, p) ==
    Only({ Tup([t \in 1..Len(jp) |-> Mul(SqrtHalf(t - 1), jp[t])])
           : jp \in {jacobi(order, 0, 0, p)} })

LinePolyBasis_ortho_basis_at_mp(order, p) ==
    Only({ Tup([t \in 1..Len(jp) |-> Mul(SqrtHalf(t - 1), jp[t])])
           : jp \in {jacobi(order - 1, 0, 0, p)} })

LinePolyBasis_jac_ortho_basis_at_mp(order, p) ==
    Only({ Tup([t \in 1..Len(djp) |-> Mul(SqrtHalf(t - 1), djp[t])])
           : djp \in {jacobi_diff(order - 1, 0, 0, p)} })

LinePolyBasis_degrees(order) == Range(order)

(***************************************************************************)
(* QuadPolyBasis                                                           *)
(***************************************************************************)
\* [c*jp for c, jp in zip(sk, jacobi...)] with sk = [sqrt(k + 0.5) ...]
ScaledBy(order, js0) ==
    Only({ Tup([t \in 1..Min(Len(Range(order)), Len(js)) |->
                  Mul(SqrtHalf(t - 1), js[t])]) : js \in {js0} })

QuadPolyBasis_ortho_basis_at_mp(order, p, q) ==
    Only({ Flatten([i \in 1..Len(pa) |->
                      [j \in 1..Len(pb) |-> Mul(pa[i], pb[j])]])
           : pa \in {ScaledBy(order, jacobi(order - 1, 0, 0, p))},
             pb \in {ScaledBy(order, jacobi(order - 1, 0, 0, q))} })

QuadPolyBasis_jac_ortho_basis_at_mp(order, p, q) ==
    Only({ Flatten([i \in 1..Min(Len(pa), Len(dpa)) |->
                      [j \in 1..Min(Len(pb), Len(dpb)) |->
                         <<Mul(dpa[i], pb[j]), Mul(pa[i], dpb[j])>>]])
           : pa  \in {ScaledBy(order, jacobi(order - 1, 0, 0, p))},
             pb  \in {ScaledBy(order, jacobi(order - 1, 0, 0, q))},
             dpa \in {ScaledBy(order, jacobi_diff(order - 1, 0, 0, p))},
             dpb \in {ScaledBy(order, jacobi_diff(order - 1, 0, 0, q))} })

QuadPolyBasis_degrees(order) ==
    Flatten([i \in 1..order |-> [j \in 1..order |-> (i - 1) + (j - 1)]])

(***************************************************************************)
(* The enumeration every generator runs.  X_ortho_terms and X_jac_terms    *)
(* are the sub-degree tuples (i, j, k) in the order in which               *)
(* ortho_basis_at_mp and jac_ortho_basis_at_mp append (or list) their      *)
(* entries: each loop runs over the sequence the code enumerates, a        *)
(* jacobi list, a zip of a jacobi and a jacobi_diff list, or a zip with    *)
(* the order-long list sk.  X_collapse_ortho and X_collapse_jac are the    *)
(* collapsed coordinates (a, b, c) each of the two functions computes      *)
(* first.                                                                  *)
(***************************************************************************)
\* len(jacobi(n, a, b, z))
JLen(n, a, b, z) == Len(jacobi(n, a, b, z))
\* len(zip(jacobi(n, a, b, z), jacobi_diff(n, a, b, z)))
JZipLen(n, a, b, z) == Min(Len(jacobi(n, a, b, z)), Len(jacobi_diff(n, a, b, z)))
\* len(zip(sk, jacobi(order - 1, 0, 0, z))), sk of length order
SkLen(order, z) == Min(Len(Range(order)), JLen(order - 1, 0, 0, z))
\* the same zipped with the scaled jacobi_diff list
SkZipLen(order, z) ==
    Min(SkLen(order, z),
        Min(Len(Range(order)), Len(jacobi_diff(order - 1, 0, 0, z))))

Two == Int2Num(2)

LinePolyBasis_ortho_terms(order, p) ==
    [i \in 1..JLen(order - 1, 0, 0, p) |-> <<i - 1>>]

LinePolyBasis_jac_terms(order, p) ==
    [i \in 1..Len(jacobi_diff(order - 1, 0, 0, p)) |-> <<i - 1>>]

\* a = 2*(1 + p)/(1 - q) - 1 if q != 1 else -1;  b = q
TriPolyBasis_collapse_ortho(p, q) ==
    << IF q # One
       THEN Sub(Div(Mul(Two, Add(One, p)), Sub(One, q)), One)
       ELSE Neg(One),
       q >>

TriPolyBasis_collapse_jac(p, q) ==
    << IF q # One
       THEN Sub(Div(Mul(Two, Add(One, p)), Sub(One, q)), One)
       ELSE Neg(One),
       q >>

TriPolyBasis_ortho_terms(order, p, q) ==
    LET ab == TriPolyBasis_collapse_ortho(p, q)
    IN  Flatten([i \in 1..JLen(order - 1, 0, 0, ab[1]) |->
          [j \in 1..JLen(order - (i - 1) - 1, 2 * (i - 1) + 1, 0, ab[2]) |->
             <<i - 1, j - 1>>]])

TriPolyBasis_jac_terms(order, p, q) ==
    LET ab == TriPolyBasis_collapse_jac(p, q)
    IN  Flatten([i \in 1..JZipLen(order - 1, 0, 0, ab[1]) |->
          [j \in 1..JZipLen(order - (i - 1) - 1, 2 * (i - 1) + 1, 0, ab[2]) |->
             <<i - 1, j - 1>>]])

TriPolyBasis_degrees(order) ==
    Flatten([i \in 1..order |-> [j \in 1..(order - (i - 1)) |->
                                   (i - 1) + (j - 1)]])

QuadPolyBasis_ortho_terms(order, p, q) ==
    Flatten([i \in 1..SkLen(order, p) |-> [j \in 1..SkLen(order, q) |->
                                             <<i - 1, j - 1>>]])

QuadPolyBasis_jac_terms(order, p, q) ==
    Flatten([i \in 1..SkZipLen(order, p) |-> [j \in 1..SkZipLen(order, q) |->
                                                <<i - 1, j - 1>>]])

\* a = -2*(1 + p)/(q + r) - 1 if r != -q else -1
\* b = 2*(1 + q)/(1 - r) - 1 if r != 1 else -1;  c = r
TetPolyBasis_collapse_ortho(p, q, r) ==
    << IF r # Neg(q)
       THEN Sub(Div(Mul(Neg(Two), Add(One, p)), Add(q, r)), One)
       ELSE Neg(One),
       IF r # One
       THEN Sub(Div(Mul(Two, Add(One, q)), Sub(One, r)), One)
       ELSE Neg(One),
       r >>

\* A slip: the guard of a compares r with q, not with -q.
TetPolyBasis_collapse_jac_wrong_guard(p, q, r) ==
    << IF r # q
       THEN Sub(Div(Mul(Neg(Two), Add(One, p)), Add(q, r)), One)
       ELSE Neg(One),
       IF r # One
       THEN Sub(Div(Mul(Two, Add(One, q)), Sub(One, r)), One)
       ELSE Neg(One),
       r >>

TetPolyBasis_collapse_jac(p, q, r) ==
    << IF r # Neg(q)
       THEN Sub(Div(Mul(Neg(Two), Add(One, p)), Add(q, r)), One)
       ELSE Neg(One),
       IF r # One
       THEN Sub(Div(Mul(Two, Add(One, q)), Sub(One, r)), One)
       ELSE Neg(One),
       r >>

TetPolyBasis_ortho_terms(order, p, q, r) ==
    LET abc == TetPolyBasis_collapse_ortho(p, q, r)
    IN  Flatten([i \in 1..JLen(order - 1, 0, 0, abc[1]) |->
          Flatten([j \in 1..JLen(order - (i - 1) - 1, 2 * (i - 1) + 1, 0,
                                 abc[2]) |->
            [k \in 1..JLen(order - (i - 1) - (j - 1) - 1,
                           2 * ((i - 1) + (j - 1) + 1), 0, abc[3]) |->
               <<i - 1, j - 1, k - 1>>]])])

TetPolyBasis_jac_terms(order, p, q, r) ==
    LET abc == TetPolyBasis_collapse_jac(p, q, r)
    IN  Flatten([i \in 1..JZipLen(order - 1, 0, 0, abc[1]) |->
          Flatten([j \in 1..JZipLen(order - (i - 1) - 1, 2 * (i - 1) + 1, 0,
                                    abc[2]) |->
            [k \in 1..JZipLen(order - (i - 1) - (j - 1) - 1,
                              2 * ((i - 1) + (j - 1) + 1), 0, abc[3]) |->
               <<i - 1, j - 1, k - 1>>]])])

TetPolyBasis_degrees(order) ==
    Flatten([i \in 1..order |->
      Flatten([j \in 1..(order - (i - 1)) |->
        [k \in 1..(order - (i - 1) - (j - 1)) |->
           (i - 1) + (j - 1) + (k - 1)]])])

\* a = 2*(1 + p)/(1 - q) - 1 if q != 1 else -1;  b = q;  c = r
PriPolyBasis_collapse_ortho(p, q, r) ==
    << IF q # One
       THEN Sub(Div(Mul(Two, Add(One, p)), Sub(One, q)), One)
       ELSE Neg(One),
       q, r >>

PriPolyBasis_collapse_jac(p, q, r) ==
    << IF q # One
       THEN Sub(Div(Mul(Two, Add(One, p)), Sub(One, q)), One)
       ELSE Neg(One),
       q, r >>

\* pab is built over (i, j); the result lists pij*pk for pij in pab, pk in pc
PriPolyBasis_ortho_terms(order, p, q, r) ==
    LET abc == PriPolyBasis_collapse_ortho(p, q, r)
        pab == Flatten([i \in 1..JLen(order - 1, 0, 0, abc[1]) |->
                 [j \in 1..JLen(order - (i - 1) - 1, 2 * (i - 1) + 1, 0,
                                abc[2]) |-> <<i - 1, j - 1>>]])
    IN  Flatten([t \in 1..Len(pab) |->
          [k \in 1..SkLen(order, abc[3]) |-> Append(pab[t], k - 1)]])

PriPolyBasis_jac_terms(order, p, q, r) ==
    LET abc == PriPolyBasis_collapse_jac(p, q, r)
        pab == Flatten([i \in 1..JZipLen(order - 1, 0, 0, abc[1]) |->
                 [j \in 1..JZipLen(order - (i - 1) - 1, 2 * (i - 1) + 1, 0,
                                   abc[2]) |-> <<i - 1, j - 1>>]])
    IN  Flatten([t \in 1..Len(pab) |->
          [k \in 1..SkZipLen(order, abc[3]) |-> Append(pab[t], k - 1)]])

PriPolyBasis_degrees(order) ==
    Flatten([i \in 1..order |->
      Flatten([j \in 1..(order - (i - 1)) |->
        [k \in 1..order |-> (i - 1) + (j - 1) + (k - 1)]])])

\* a = 2*p/(1 - r) if r != 1 else 0;  b = 2*q/(1 - r) if r != 1 else 0;  c = r
PyrPolyBasis_collapse_ortho(p, q, r) ==
    << IF r # One THEN Div(Mul(Two, p), Sub(One, r)) ELSE Zero,
       IF r # One THEN Div(Mul(Two, q), Sub(One, r)) ELSE Zero,
       r >>

PyrPolyBasis_collapse_jac(p, q, r) ==
    << IF r # One THEN Div(Mul(Two, p), Sub(One, r)) ELSE Zero,
       IF r # One THEN Div(Mul(Two, q), Sub(One, r)) ELSE Zero,
       r >>

PyrPolyBasis_ortho_terms(order, p, q, r) ==
    LET abc == PyrPolyBasis_collapse_ortho(p, q, r)
    IN  Flatten([i \in 1..SkLen(order, abc[1]) |->
          Flatten([j \in 1..SkLen(order, abc[2]) |->
            [k \in 1..JLen(order - Max(i - 1, j - 1) - 1,
                           2 * ((i - 1) + (j - 1) + 1), 0, abc[3]) |->
               <<i - 1, j - 1, k - 1>>]])])

PyrPolyBasis_jac_terms(order, p, q, r) ==
    LET abc == PyrPolyBasis_collapse_jac(p, q, r)
    IN  Flatten([i \in 1..SkZipLen(order, abc[1]) |->
          Flatten([j \in 1..SkZipLen(order, abc[2]) |->
            [k \in 1..JZipLen(order - Max(i - 1, j - 1) - 1,
                              2 * ((i - 1) + (j - 1) + 1), 0, abc[3]) |->
               <<i - 1, j - 1, k - 1>>]])])

\* A slip: the k loop bounded as the tetrahedron's, by order - i - j.
PyrPolyBasis_degrees_as_tet(order) ==
    Flatten([i \in 1..order |->
      Flatten([j \in 1..order |->
        [k \in 1..(order - (i - 1) - (j - 1)) |->
           (i - 1) + (j - 1) + (k - 1)]])])

PyrPolyBasis_degrees(order) ==
    Flatten([i \in 1..order |->
      Flatten([j \in 1..order |->
        [k \in 1..(order - Max(i - 1, j - 1)) |->
           (i - 1) + (j - 1) + (k - 1)]])])

HexPolyBasis_ortho_terms(order, p, q, r) ==
    Flatten([i \in 1..SkLen(order, p) |->
      Flatten([j \in 1..SkLen(order, q) |->
        [k \in 1..SkLen(order, r) |-> <<i - 1, j - 1, k - 1>>]])])

HexPolyBasis_jac_terms(order, p, q, r) ==
    Flatten([i \in 1..SkZipLen(order, p) |->
      Flatten([j \in 1..SkZipLen(order, q) |->
        [k \in 1..SkZipLen(order, r) |-> <<i - 1, j - 1, k - 1>>]])])

HexPolyBasis_degrees(order) ==
    Flatten([i \in 1..order |->
      Flatten([j \in 1..order |->
        [k \in 1..order |-> (i - 1) + (j - 1) + (k - 1)]])])

(***************************************************************************)
(* The seven bases by name (subclass_where(BasePolyBasis, name = name))    *)
(***************************************************************************)
Shapes == {"line", "tri", "quad", "tet", "pri", "pyr", "hex"}

\* the number of reference coordinates the shape's generators take
Dim(name) ==
    CASE name = "line" -> 1
      [] name \in {"tri", "quad"} -> 2
      [] OTHER -> 3

collapse_ortho(name, pt) ==
    CASE name = "tri" -> TriPolyBasis_collapse_ortho(pt[1], pt[2])
      [] name = "tet" -> TetPolyBasis_collapse_ortho(pt[1], pt[2], pt[3])
      [] name = "pri" -> PriPolyBasis_collapse_ortho(pt[1], pt[2], pt[3])
      [] name = "pyr" -> PyrPolyBasis_collapse_ortho(pt[1], pt[2], pt[3])
      [] OTHER -> pt

collapse_jac(name, pt) ==
    CASE name = "tri" -> TriPolyBasis_collapse_jac(pt[1], pt[2])
      [] name = "tet" -> TetPolyBasis_collapse_jac(pt[1], pt[2], pt[3])
      [] name = "pri" -> PriPolyBasis_collapse_jac(pt[1], pt[2], pt[3])
      [] name = "pyr" -> PyrPolyBasis_collapse_jac(pt[1], pt[2], pt[3])
      [] OTHER -> pt

ortho_terms(name, order, pt) ==
    CASE name = "line" -> LinePolyBasis_ortho_terms(order, pt[1])
      [] name = "tri" -> TriPolyBasis_ortho_terms(order, pt[1], pt[2])
      [] name = "quad" -> QuadPolyBasis_ortho_terms(order, pt[1], pt[2])
      [] name = "tet" -> TetPolyBasis_ortho_terms(order, pt[1], pt[2], pt[3])
      [] name = "pri" -> PriPolyBasis_ortho_terms(order, pt[1], pt[2], pt[3])
      [] name = "pyr" -> PyrPolyBasis_ortho_terms(order, pt[1], pt[2], pt[3])
      [] OTHER -> HexPolyBasis_ortho_terms(order, pt[1], pt[2], pt[3])

jac_terms(name, order, pt) ==
    CASE name = "line" -> LinePolyBasis_jac_terms(order, pt[1])
      [] name = "tri" -> TriPolyBasis_jac_terms(order, pt[1], pt[2])
      [] name = "quad" -> QuadPolyBasis_jac_terms(order, pt[1], pt[2])
      [] name = "tet" -> TetPolyBasis_jac_terms(order, pt[1], pt[2], pt[3])
      [] name = "pri" -> PriPolyBasis_jac_terms(order, pt[1], pt[2], pt[3])
      [] name = "pyr" -> PyrPolyBasis_jac_terms(order, pt[1], pt[2], pt[3])
      [] OTHER -> HexPolyBasis_jac_terms(order, pt[1], pt[2], pt[3])

degrees(name, order) ==
    CASE name = "line" -> LinePolyBasis_degrees(order)
      [] name = "tri" -> TriPolyBasis_degrees(order)
      [] name = "quad" -> QuadPolyBasis_degrees(order)
      [] name = "tet" -> TetPolyBasis_degrees(order)
      [] name = "pri" -> PriPolyBasis_degrees(order)
      [] name = "pyr" -> PyrPolyBasis_degrees(order)
      [] OTHER -> HexPolyBasis_degrees(order)

(***************************************************************************)
(* numpy arrays: nd the number of axes, shape, v the nested rows.  A call  *)
(* that raises is the record whose err names the exception.                *)
(***************************************************************************)
Arr1(v0) ==
    Only({ [err |-> "none", nd |-> 1, shape |-> <<Len(v)>>, v |-> v]
           : v \in {Tup(v0)} })
Arr2(v0) ==
    Only({ [err |-> "none", nd |-> 2, shape |-> <<Len(v), Len(v[1])>>,
            v |-> v] : v \in {Rows(v0)} })
Arr3(v0) ==
    Only({ [err |-> "none", nd |-> 3,
            shape |-> <<Len(v), Len(v[1]), Len(v[1][1])>>, v |-> v]
           : v \in {Planes(v0)} })
Raise(e) == [err |-> e, nd |-> 0, shape |-> <<>>, v |-> <<>>]
\* the instance attribute vdm before the property has stored it
Unset == Raise("unset")

\* np.array(rows): a list of lists of numbers, of lists of lists of numbers
\* (rank 1) or the empty list
np_array(rows0, rank) ==
    Only({ IF Len(rows) = 0 THEN Arr1(<<>>)
           ELSE IF rank = 0 THEN Arr2(rows)
           ELSE Arr3(rows) : rows \in {rows0} })

\* A.T of an array of one or two axes
Transpose(A0) ==
    Only({ IF A.err # "none" \/ A.nd # 2 THEN A
           ELSE Arr2([i \in 1..A.shape[2] |->
                        [k \in 1..A.shape[1] |-> A.v[k][i]]])
           : A \in {A0} })

\* A slip: A.swapaxes(0, 1), which every array of two axes or more accepts.
swapaxes_0_1(A0) ==
    Only({ IF A.err # "none" THEN A
           ELSE IF A.nd < 2 THEN Raise("ValueError")
           ELSE IF A.nd = 2
           THEN Arr2([i \in 1..A.shape[2] |->
                        [k \in 1..A.shape[1] |-> A.v[k][i]]])
           ELSE Arr3([i \in 1..A.shape[2] |-> [k \in 1..A.shape[1] |->
                        [a \in 1..A.shape[3] |-> A.v[k][i][a]]]])
           : A \in {A0} })

\* A.swapaxes(0, 2): an array of fewer than three axes has no axis 2
swapaxes_0_2(A0) ==
    Only({ IF A.err # "none" THEN A
           ELSE IF A.nd < 3 THEN Raise("ValueError")
           ELSE Arr3([a \in 1..A.shape[3] |-> [i \in 1..A.shape[2] |->
                        [k \in 1..A.shape[1] |-> A.v[k][i][a]]]])
           : A \in {A0} })

(***************************************************************************)
(* pyfr.nputil.chop: the decorated method's array with every entry of      *)
(* magnitude below the tolerance 1/ChopTolDen set to zero.                 *)
(***************************************************************************)
ChopTolDen == 1000

ChopNum(x0) == Only({ IF AbsBelow(x, ChopTolDen) THEN Zero ELSE x : x \in {x0} })

chop(A0) ==
    Only({ IF A.err # "none" THEN A
           ELSE IF A.nd = 1
           THEN Arr1([i \in 1..Len(A.v) |-> ChopNum(A.v[i])])
           ELSE IF A.nd = 2
           THEN Arr2([i \in 1..Len(A.v) |->
                        [k \in 1..Len(A.v[i]) |-> ChopNum(A.v[i][k])]])
           ELSE Arr3([a \in 1..Len(A.v) |->
                        [i \in 1..Len(A.v[a]) |->
                           [k \in 1..Len(A.v[a][i]) |->
                              ChopNum(A.v[a][i][k])]]])
           : A \in {A0} })

(***************************************************************************)
(* numpy.linalg.solve(a, b): the x with a x = b, by Gauss-Jordan           *)
(* elimination on the rows of (a | b).  LinAlgError when a has fewer than  *)
(* two axes, is not square or is singular; ValueError when b's rows do not *)
(* match a's.  A b of three axes is a stack of right-hand sides.           *)
(***************************************************************************)
\* row r of M less M[r][c] times the row rowc
Eliminate(M, rowc, r, c) ==
    Tup([t \in 1..Len(M[r]) |-> Sub(M[r][t], Mul(M[r][c], rowc[t]))])

\* the first row from c downwards with a nonzero entry in column c
PivotRow(M, n, c) ==
    CHOOSE x \in c..n : M[x][c] # Zero /\ \A y \in c..(x - 1) : M[y][c] = Zero

\* the row divided by its entry in column c
Normalised(row, c) == Tup([t \in 1..Len(row) |-> Div(row[t], row[c])])

\* column c cleared: the pivot row brought to row c and normalised, and
\* its multiples taken from the other rows
ClearColumn(M, n, c) ==
    Only({ Tup([r \in 1..n |-> IF r = c THEN rowc
                               ELSE Eliminate(Sw, rowc, r, c)])
           : Sw \in {[M EXCEPT ![c] = M[PivotRow(M, n, c)],
                               ![PivotRow(M, n, c)] = M[c]]},
             rowc \in {Normalised(M[PivotRow(M, n, c)], c)} })

RECURSIVE GaussJordan(_, _, _)
GaussJordan(M, n, c) ==
    IF c > n THEN [ok |-> TRUE, m |-> M]
    ELSE IF \A p \in c..n : M[p][c] = Zero THEN [ok |-> FALSE, m |-> M]
    ELSE GaussJordan(ClearColumn(M, n, c), n, c + 1)

\* a and b as rows; the result's ok is FALSE when a is singular
SolveRows(a, b) ==
    Only({ [ok |-> gj.ok,
            x |-> [r \in 1..Len(a) |->
                     SubSeq(gj.m[r], Len(a) + 1, Len(gj.m[r]))]]
           : gj \in {GaussJordan(Tup([r \in 1..Len(a) |-> a[r] \o b[r]]),
                                 Len(a), 1)} })

IsSquare(A) == A.err = "none" /\ A.nd = 2 /\ A.shape[1] = A.shape[2]

IsSingular(A) == ~GaussJordan(A.v, Len(A.v), 1).ok

solve(A0, B0) ==
    Only({ IF A.err # "none" THEN A
           ELSE IF B.err # "none" THEN B
           ELSE IF ~IsSquare(A) THEN Raise("LinAlgError")
           ELSE IF B.nd = 1 \/ B.shape[B.nd - 1] # A.shape[1]
           THEN Raise("ValueError")
           ELSE IF IsSingular(A) THEN Raise("LinAlgError")
           ELSE IF B.nd = 2 THEN Arr2(SolveRows(A.v, B.v).x)
           ELSE Arr3([a \in 1..B.shape[1] |-> SolveRows(A.v, B.v[a]).x])
           : A \in {A0}, B \in {B0} })

(***************************************************************************)
(* Points.  A point of a Python list is a number (it = FALSE, c the        *)
(* one-tuple of it) or an iterable of numbers (it = TRUE, c its tuple).    *)
(***************************************************************************)
Scalar(x) == [it |-> FALSE, c |-> <<x>>]
Tuple(c) == [it |-> TRUE, c |-> c]

(***************************************************************************)
(* BasePolyBasis                                                           *)
(***************************************************************************)
\* self.ortho_basis_at_mp(*p) and self.jac_ortho_basis_at_mp(*p) of the
\* bases whose values the model computes
ortho_basis_at_mp(name, order, c) ==
    CASE name = "line" -> LinePolyBasis_ortho_basis_at_mp(order, c[1])
      [] name = "quad" -> QuadPolyBasis_ortho_basis_at_mp(order, c[1], c[2])

jac_ortho_basis_at_mp(name, order, c) ==
    CASE name = "line" -> LinePolyBasis_jac_ortho_basis_at_mp(order, c[1])
      [] name = "quad" -> QuadPolyBasis_jac_ortho_basis_at_mp(order, c[1], c[2])

\* the nesting of one entry of jac_ortho_basis_at_mp's list: the line's is a
\* number, every other shape's a list with one number per axis
jac_entry_rank(name) == IF name = "line" THEN 0 ELSE 1

\* if len(pts) and not isinstance(pts[0], Iterable): pts = [(p,) for p in pts]
promote(pts) ==
    IF Len(pts) > 0 /\ ~pts[1].it
    THEN [k \in 1..Len(pts) |-> Tuple(pts[k].c)]
    ELSE pts

\* P = [self.ortho_basis_at_mp(*p) for p in pts]
ortho_basis_list(name, order, pp) ==
    [k \in 1..Len(pp) |-> ortho_basis_at_mp(name, order, pp[k].c)]

\* J = [self.jac_ortho_basis_at_mp(*p) for p in pts]
jac_ortho_basis_list(name, order, pp) ==
    [k \in 1..Len(pp) |-> jac_ortho_basis_at_mp(name, order, pp[k].c)]

ortho_basis_at(name, order, pts) ==
    chop(Transpose(np_array(ortho_basis_list(name, order, promote(pts)), 0)))

jac_ortho_basis_at(name, order, pts) ==
    chop(swapaxes_0_2(np_array(jac_ortho_basis_list(name, order, promote(pts)),
                               jac_entry_rank(name))))

\* A slip: the system solved against the transpose of the matrix.
nodal_basis_at_vdm_T(name, order, V, epts) ==
    chop(Transpose(solve(Transpose(V), ortho_basis_at(name, order, epts))))

\* np.linalg.solve(self.vdm, self.ortho_basis_at(epts)).T, V what self.vdm gave
nodal_basis_at(name, order, V, epts) ==
    chop(Transpose(solve(V, ortho_basis_at(name, order, epts))))

\* the transpose of each matrix of a stack
TransposeEach(A0) ==
    Only({ IF A.err # "none" \/ A.nd # 3 THEN A
           ELSE Arr3([a \in 1..A.shape[1] |-> [e \in 1..A.shape[3] |->
                        [n \in 1..A.shape[2] |-> A.v[a][n][e]]]])
           : A \in {A0} })

\* A slip: each axis's solution transposed, as nodal_basis_at's is.
jac_nodal_basis_at_T(name, order, V, epts) ==
    chop(TransposeEach(solve(V, jac_ortho_basis_at(name, order, epts))))

\* np.linalg.solve(self.vdm, self.jac_ortho_basis_at(epts))
jac_nodal_basis_at(name, order, V, epts) ==
    chop(solve(V, jac_ortho_basis_at(name, order, epts)))

(***************************************************************************)
(* Bounds                                                                  *)
(***************************************************************************)
\* orders 1..MaxOrder
MaxOrder == 3
\* reference coordinates k/GridDen, k in -GridDen..GridDen
GridDen == 1

\* orders 1..MaxNodalOrder of the bases whose nodal matrices are computed
MaxNodalOrder == 2
\* basis objects alive at once
NInst == 2
\* the length to which a point list is grown in place
MaxPts == 3
\* list objects allocated
MaxHeap == 4
\* threads reading vdm at once
NThreads == 2
\* calls and assignments made on the basis objects
MaxOps == 4

Coords == {Rat(k, GridDen) : k \in (-GridDen)..GridDen}
Points(dim) == [1..dim -> Coords]

VARIABLES heap, insts, ncomp, last, thr, call, nops

vars == <<heap, insts, ncomp, last, thr, call, nops>>

(***************************************************************************)
(* SpecMp: one basis of any shape and order, one point; the per-point      *)
(* generators and the degree table are called on it in any order.          *)
(*   call.ob, call.jb: what ortho_basis_at_mp and jac_ortho_basis_at_mp    *)
(*   computed: the collapsed coordinates and the tuples of the entries;    *)
(*   call.dg: the degrees list.                                            *)
(***************************************************************************)
NoTerms == [done |-> FALSE, abc |-> <<>>, terms |-> <<>>]
NoDegrees == [done |-> FALSE, v |-> <<>>]
Idle == [name |-> "", order |-> 0, pt |-> <<>>,
         ob |-> NoTerms, jb |-> NoTerms, dg |-> NoDegrees]

MpInit ==
    /\ heap = <<>> /\ insts = <<>> /\ ncomp = <<>> /\ last = <<>> /\ thr = <<>>
    /\ nops = 0
    /\ \E name \in Shapes, order \in 1..MaxOrder :
         \E pt \in Points(Dim(name)) :
            call = [Idle EXCEPT !.name = name, !.order = order, !.pt = pt]

CallOrthoMp ==
    /\ call' = [call EXCEPT !.ob =
                  [done |-> TRUE,
                   abc |-> collapse_ortho(call.name, call.pt),
                   terms |-> ortho_terms(call.name, call.order, call.pt)]]
    /\ UNCHANGED <<heap, insts, ncomp, last, thr, nops>>

CallJacMp ==
    /\ call' = [call EXCEPT !.jb =
                  [done |-> TRUE,
                   abc |-> collapse_jac(call.name, call.pt),
                   terms |-> jac_terms(call.name, call.order, call.pt)]]
    /\ UNCHANGED <<heap, insts, ncomp, last, thr, nops>>

CallDegrees ==
    /\ call' = [call EXCEPT !.dg =
                  [done |-> TRUE, v |-> degrees(call.name, call.order)]]
    /\ UNCHANGED <<heap, insts, ncomp, last, thr, nops>>

MpNext == CallOrthoMp \/ CallJacMp \/ CallDegrees

SpecMp == MpInit /\ [][MpNext]_vars

(***************************************************************************)
(* Basis objects.                                                          *)
(*   heap   the Python list objects; heap[1] is the list that the default  *)
(*          pts=[] of get_polybasis made when the function was defined     *)
(*   insts  the basis objects: name, order, pts (a reference into heap)    *)
(*          and the instance attribute vdm the lazy property stores        *)
(*   ncomp  how many times the body of the vdm property ran, per object    *)
(*   last   the last call: the object, the argument, the value self.vdm    *)
(*          gave it (V) and what it returned (val)                         *)
(*   nops   the calls and assignments made so far                          *)
(*   thr    the threads reading vdm of object 1: where each stands, the    *)
(*          matrix it holds (V) and what its call returned (val)           *)
(***************************************************************************)
DefaultPts == 1

NodalNames == {"line", "quad"}

\* n equispaced coordinates of [-1, 1]
Equi(n) == IF n = 1 THEN <<Zero>>
           ELSE [k \in 1..n |-> Rat(2 * (k - 1) - (n - 1), n - 1)]

\* the n (line) or n*n (quad) points of the equispaced grid
GridPts(name, n) ==
    IF name = "line" THEN [k \in 1..n |-> Scalar(Equi(n)[k])]
    ELSE Flatten([a \in 1..n |-> [b \in 1..n |->
                    Tuple(<<Equi(n)[a], Equi(n)[b]>>)]])

\* point sets a basis is built with: as many points as basis functions, one
\* grid too many, one point repeated
PointSets(name, order) ==
    { GridPts(name, order),
      GridPts(name, order + 1),
      [k \in 1..Len(GridPts(name, order)) |-> GridPts(name, order)[1]] }

NoCall == [op |-> "", inst |-> 0, epts |-> <<>>, V |-> Unset, val |-> Unset]

NewInst(name, order, ref) ==
    [name |-> name, order |-> order, pts |-> ref,
     has_vdm |-> FALSE, vdm |-> Unset]

\* A slip: the matrix transposed once more, rows for points.
vdm_T(i) ==
    Transpose(ortho_basis_at(insts[i].name, insts[i].order,
                             heap[insts[i].pts]))

\* the body of the vdm property: self.ortho_basis_at(self.pts)
vdm(i) == ortho_basis_at(insts[i].name, insts[i].order, heap[insts[i].pts])

\* lazyprop.__get__ on self.vdm: the stored attribute when there is one,
\* else the body's value, which it stores on the instance
lazyprop_vdm(i) ==
    IF insts[i].has_vdm THEN [val |-> insts[i].vdm, ran |-> FALSE]
    ELSE [val |-> vdm(i), ran |-> TRUE]

StoreVdm(i, g) ==
    /\ insts' = [insts EXCEPT ![i].has_vdm = TRUE, ![i].vdm = g.val]
    /\ ncomp' = [ncomp EXCEPT ![i] = @ + (IF g.ran THEN 1 ELSE 0)]

\* the point sets the nodal and orthonormal bases are evaluated at
EvalSets(i) ==
    ({ heap[insts[i].pts],
       GridPts(insts[i].name, insts[i].order + 1),
       <<GridPts(insts[i].name, 2)[1]>> }) \ {<<>>}

\* one more call or assignment
Tick == nops < MaxOps /\ nops' = nops + 1

\* get_polybasis(name, order, pts): the caller's list is bound, not copied
GetPolybasis(name, order, pts) ==
    /\ Tick
    /\ Len(insts) < NInst
    /\ Len(heap) < MaxHeap
    /\ heap' = Append(heap, pts)
    /\ insts' = Append(insts, NewInst(name, order, Len(heap) + 1))
    /\ ncomp' = Append(ncomp, 0)
    /\ last' = [NoCall EXCEPT !.op = "get_polybasis", !.inst = Len(insts) + 1]
    /\ UNCHANGED <<thr, call>>

\* get_polybasis(name, order): pts is the default argument's list object
GetPolybasisDefault(name, order) ==
    /\ Tick
    /\ Len(insts) < NInst
    /\ insts' = Append(insts, NewInst(name, order, DefaultPts))
    /\ ncomp' = Append(ncomp, 0)
    /\ last' = [NoCall EXCEPT !.op = "get_polybasis", !.inst = Len(insts) + 1]
    /\ UNCHANGED <<heap, thr, call>>

\* b.pts.append(p): the list object b.pts refers to grows in place
PtsAppend(i, p) ==
    /\ Tick
    /\ Len(heap[insts[i].pts]) < MaxPts
    /\ heap' = [heap EXCEPT ![insts[i].pts] = Append(@, p)]
    /\ last' = [NoCall EXCEPT !.op = "pts.append", !.inst = i]
    /\ UNCHANGED <<insts, ncomp, thr, call>>

\* b.pts = pts, pts a new list
SetPts(i, pts) ==
    /\ Tick
    /\ Len(heap) < MaxHeap
    /\ heap' = Append(heap, pts)
    /\ insts' = [insts EXCEPT ![i].pts = Len(heap) + 1]
    /\ last' = [NoCall EXCEPT !.op = "pts=", !.inst = i]
    /\ UNCHANGED <<ncomp, thr, call>>

\* b.order = order
SetOrder(i, order) ==
    /\ Tick
    /\ order # insts[i].order
    /\ insts' = [insts EXCEPT ![i].order = order]
    /\ last' = [NoCall EXCEPT !.op = "order=", !.inst = i]
    /\ UNCHANGED <<heap, ncomp, thr, call>>

\* b.vdm
AccessVdm(i) ==
    \E g \in {lazyprop_vdm(i)} :
        /\ Tick
        /\ StoreVdm(i, g)
        /\ last' = [NoCall EXCEPT !.op = "vdm", !.inst = i,
                                  !.V = g.val, !.val = g.val]
        /\ UNCHANGED <<heap, thr, call>>

\* b.ortho_basis_at(epts)
OrthoBasisAt(i, epts) ==
    /\ Tick
    /\ last' = [NoCall EXCEPT
                  !.op = "ortho_basis_at", !.inst = i, !.epts = epts,
                  !.val = ortho_basis_at(insts[i].name, insts[i].order, epts)]
    /\ UNCHANGED <<heap, insts, ncomp, thr, call>>

\* b.jac_ortho_basis_at(epts)
JacOrthoBasisAt(i, epts) ==
    /\ Tick
    /\ last' = [NoCall EXCEPT
                  !.op = "jac_ortho_basis_at", !.inst = i, !.epts = epts,
                  !.val = jac_ortho_basis_at(insts[i].name, insts[i].order,
                                             epts)]
    /\ UNCHANGED <<heap, insts, ncomp, thr, call>>

\* A slip: the Vandermonde matrix recomputed and stored again at every call.
NodalBasisAt_recomputing(i, epts) ==
    \E g \in {[val |-> vdm(i), ran |-> TRUE]} :
        /\ Tick
        /\ StoreVdm(i, g)
        /\ last' = [NoCall EXCEPT
                      !.op = "nodal_basis_at", !.inst = i, !.epts = epts,
                      !.V = g.val,
                      !.val = nodal_basis_at(insts[i].name, insts[i].order,
                                             g.val, epts)]
        /\ UNCHANGED <<heap, thr, call>>

\* b.nodal_basis_at(epts): self.vdm is evaluated first
NodalBasisAt(i, epts) ==
    \E g \in {lazyprop_vdm(i)} :
        /\ Tick
        /\ StoreVdm(i, g)
        /\ last' = [NoCall EXCEPT
                      !.op = "nodal_basis_at", !.inst = i, !.epts = epts,
                      !.V = g.val,
                      !.val = nodal_basis_at(insts[i].name, insts[i].order,
                                             g.val, epts)]
        /\ UNCHANGED <<heap, thr, call>>

\* b.jac_nodal_basis_at(epts): self.vdm is evaluated first, and is stored
\* even when self.jac_ortho_basis_at(epts) then raises
JacNodalBasisAt(i, epts) ==
    \E g \in {lazyprop_vdm(i)} :
        /\ Tick
        /\ StoreVdm(i, g)
        /\ last' = [NoCall EXCEPT
                      !.op = "jac_nodal_basis_at", !.inst = i, !.epts = epts,
                      !.V = g.val,
                      !.val = jac_nodal_basis_at(insts[i].name,
                                                 insts[i].order, g.val, epts)]
        /\ UNCHANGED <<heap, thr, call>>

(***************************************************************************)
(* Spec: one basis built by get_polybasis, with a point set or without,    *)
(* and used as the data model prescribes: its points and order are not     *)
(* changed after construction.                                             *)
(***************************************************************************)
OneBasis ==
    \E name \in NodalNames, order \in 1..MaxNodalOrder :
       \/ /\ heap = << <<>> >>
          /\ insts = <<NewInst(name, order, DefaultPts)>>
       \/ \E pts \in PointSets(name, order) :
            /\ heap = << <<>>, pts >>
            /\ insts = <<NewInst(name, order, 2)>>

Init ==
    /\ thr = <<>> /\ call = Idle /\ last = NoCall /\ ncomp = <<0>> /\ nops = 0
    /\ OneBasis

Next ==
    \/ \E i \in DOMAIN insts : AccessVdm(i)
    \/ \E i \in DOMAIN insts : \E epts \in EvalSets(i) : OrthoBasisAt(i, epts)
    \/ \E i \in DOMAIN insts : \E epts \in EvalSets(i) :
          JacOrthoBasisAt(i, epts)
    \/ \E i \in DOMAIN insts : \E epts \in EvalSets(i) : NodalBasisAt(i, epts)
    \/ \E i \in DOMAIN insts : \E epts \in EvalSets(i) :
          JacNodalBasisAt(i, epts)

Spec == Init /\ [][Next]_vars

(***************************************************************************)
(* SpecAlias: line bases of order 1 made by get_polybasis with and without *)
(* a point list, whose pts and order a client then reassigns and whose     *)
(* point list it grows in place, between calls that read vdm.              *)
(***************************************************************************)
ClientNames == {"line"}

\* the point a client appends to a list: the next one of the grid
NextPt(name, pts) == GridPts(name, MaxPts)[Len(pts) + 1]

\* the order a client assigns: the next one, the first after the last
NextOrder(order) == (order % MaxNodalOrder) + 1

\* where the nodal bases are evaluated: the corners of the line
AliasEvalSets(i) == {GridPts(insts[i].name, 2)}

AliasInit ==
    /\ heap = << <<>> >> /\ insts = <<>> /\ ncomp = <<>> /\ last = NoCall
    /\ thr = <<>> /\ call = Idle /\ nops = 0

AliasNext ==
    \/ \E name \in ClientNames : GetPolybasis(name, 1, GridPts(name, 1))
    \/ \E name \in ClientNames : GetPolybasisDefault(name, 1)
    \/ \E i \in DOMAIN insts :
          PtsAppend(i, NextPt(insts[i].name, heap[insts[i].pts]))
    \/ \E i \in DOMAIN insts :
          SetPts(i, GridPts(insts[i].name, insts[i].order + 1))
    \/ \E i \in DOMAIN insts : SetOrder(i, NextOrder(insts[i].order))
    \/ \E i \in DOMAIN insts : AccessVdm(i)
    \/ \E i \in DOMAIN insts : \E epts \in AliasEvalSets(i) :
          NodalBasisAt(i, epts)
    \/ \E i \in DOMAIN insts : \E epts \in AliasEvalSets(i) :
          JacNodalBasisAt(i, epts)

SpecAlias == AliasInit /\ [][AliasNext]_vars

(***************************************************************************)
(* SpecThreads: one line basis on the grid of its order, and NThreads      *)
(* threads that each make one call reading self.vdm.  A thread runs a      *)
(* bytecode at a time under the interpreter lock, so the lookup of the     *)
(* instance attribute, the run of the property's body and the setattr of   *)
(* its value are steps other threads' steps come between.                  *)
(***************************************************************************)
VdmOps == {"vdm", "nodal_basis_at", "jac_nodal_basis_at"}

NoThread == [pc |-> "call", op |-> "", V |-> Unset, val |-> Unset]

ThreadsInit ==
    /\ call = Idle /\ last = NoCall /\ ncomp = <<0>> /\ nops = 0
    /\ thr = [t \in 1..NThreads |-> NoThread]
    /\ \E name \in ClientNames, order \in 1..MaxNodalOrder :
          /\ heap = << <<>>, GridPts(name, order) >>
          /\ insts = <<NewInst(name, order, 2)>>

\* the thread enters b.vdm, b.nodal_basis_at(b.pts) or
\* b.jac_nodal_basis_at(b.pts)
ThreadCall(t, op) ==
    /\ thr[t].pc = "call"
    /\ thr' = [thr EXCEPT ![t].pc = "get", ![t].op = op]
    /\ UNCHANGED <<heap, insts, ncomp, last, call, nops>>

\* self.vdm: the instance attribute if it is there, else lazyprop.__get__
ThreadGet(t) ==
    /\ thr[t].pc = "get"
    /\ thr' = IF insts[1].has_vdm
              THEN [thr EXCEPT ![t].pc = "use", ![t].V = insts[1].vdm]
              ELSE [thr EXCEPT ![t].pc = "fn"]
    /\ UNCHANGED <<heap, insts, ncomp, last, call, nops>>

\* A slip: the attribute is created, without its value, before the body runs.
ThreadFn_attribute_first(t) ==
    /\ thr[t].pc = "fn"
    /\ thr' = [thr EXCEPT ![t].pc = "setattr", ![t].V = vdm(1)]
    /\ insts' = [insts EXCEPT ![1].has_vdm = TRUE]
    /\ ncomp' = [ncomp EXCEPT ![1] = @ + 1]
    /\ UNCHANGED <<heap, last, call, nops>>

\* lazyprop.__get__: the body of the property runs, into a local
ThreadFn(t) ==
    /\ thr[t].pc = "fn"
    /\ thr' = [thr EXCEPT ![t].pc = "setattr", ![t].V = vdm(1)]
    /\ ncomp' = [ncomp EXCEPT ![1] = @ + 1]
    /\ UNCHANGED <<heap, insts, last, call, nops>>

\* lazyprop.__get__: setattr(instance, 'vdm', value)
ThreadSetattr(t) ==
    /\ thr[t].pc = "setattr"
    /\ insts' = [insts EXCEPT ![1].has_vdm = TRUE, ![1].vdm = thr[t].V]
    /\ thr' = [thr EXCEPT ![t].pc = "use"]
    /\ UNCHANGED <<heap, ncomp, last, call, nops>>

\* the rest of the call, with the matrix self.vdm gave
ThreadUse(t) ==
    /\ thr[t].pc = "use"
    /\ thr' = [thr EXCEPT
                 ![t].pc = "done",
                 ![t].val =
                    CASE thr[t].op = "vdm" -> thr[t].V
                      [] thr[t].op = "nodal_basis_at" ->
                           nodal_basis_at(insts[1].name, insts[1].order,
                                          thr[t].V, heap[insts[1].pts])
                      [] thr[t].op = "jac_nodal_basis_at" ->
                           jac_nodal_basis_at(insts[1].name, insts[1].order,
                                              thr[t].V, heap[insts[1].pts])]
    /\ UNCHANGED <<heap, insts, ncomp, last, call, nops>>

ThreadsNext ==
    \/ \E t \in DOMAIN thr : \E op \in VdmOps : ThreadCall(t, op)
    \/ \E t \in DOMAIN thr : ThreadGet(t)
    \/ \E t \in DOMAIN thr : ThreadFn(t)
    \/ \E t \in DOMAIN thr : ThreadSetattr(t)
    \/ \E t \in DOMAIN thr : ThreadUse(t)

SpecThreads == ThreadsInit /\ [][ThreadsNext]_vars

(***************************************************************************)
(* Claims checked under SpecMp                                             *)
(***************************************************************************)
MinusOne == Neg(One)

\* C1: for every shape, order and point, the list ortho_basis_at_mp returns,
\* the list jac_ortho_basis_at_mp returns and the degrees list have the same
\* length, entry n of the two generators comes from the same sub-degree
\* tuple (i, j, k), and degrees[n] is the sum of that tuple.
C1_DegreesAligned ==
    /\ (call.ob.done /\ call.jb.done) => call.ob.terms = call.jb.terms
    /\ (call.ob.done /\ call.dg.done) =>
          /\ Len(call.dg.v) = Len(call.ob.terms)
          /\ \A n \in 1..Len(call.dg.v) :
                call.dg.v[n] = SumSeq(call.ob.terms[n])
    /\ (call.jb.done /\ call.dg.done) =>
          /\ Len(call.dg.v) = Len(call.jb.terms)
          /\ \A n \in 1..Len(call.dg.v) :
                call.dg.v[n] = SumSeq(call.jb.terms[n])

\* the three lists of an order-2 pyramid, whose k loop is cut by max(i, j)
C1_Witness ==
    /\ call.name = "pyr" /\ call.order = 2
    /\ call.ob.done /\ call.jb.done /\ call.dg.done
    /\ call.dg.v = <<0, 1, 1, 1, 2>>
    /\ call.ob.terms[5] = <<1, 1, 0>>

\* what each collapse must give at the degenerate inputs
CollapseLimits(name, pt, abc) ==
    /\ \A t \in 1..Len(abc) : ~IsBad(abc[t])
    /\ (name \in {"tri", "pri"} /\ pt[2] = One) => abc[1] = MinusOne
    /\ (name = "tet" /\ pt[3] = Neg(pt[2])) => abc[1] = MinusOne
    /\ (name = "tet" /\ pt[3] = One) => abc[2] = MinusOne
    /\ (name = "pyr" /\ pt[3] = One) => (abc[1] = Zero /\ abc[2] = Zero)

\* C9: for tri, pri, tet and pyr and every point, neither generator divides
\* by a zero collapse denominator, the degenerate inputs give the fixed
\* limits, and the gradient generator computes the same (a, b, c) as the
\* value generator.
C9_CollapseGuarded ==
    /\ call.ob.done => CollapseLimits(call.name, call.pt, call.ob.abc)
    /\ call.jb.done => CollapseLimits(call.name, call.pt, call.jb.abc)
    /\ (call.ob.done /\ call.jb.done) => call.ob.abc = call.jb.abc

\* a tetrahedron point with q + r = 0 and r = 1, both generators called
C9_Witness ==
    /\ call.name = "tet" /\ call.pt[2] = MinusOne /\ call.pt[3] = One
    /\ call.ob.done /\ call.jb.done
    /\ call.jb.abc = <<MinusOne, MinusOne, One>>

(***************************************************************************)
(* Claims checked under Spec                                               *)
(***************************************************************************)
\* the n x n identity matrix
Identity(n) ==
    Arr2([k \in 1..n |-> [m \in 1..n |-> IF k = m THEN One ELSE Zero]])

\* the lists the generators of basis j give at point k of the list pts
ValuesAt(j, pts, k) ==
    ortho_basis_at_mp(insts[j].name, insts[j].order, promote(pts)[k].c)

GradientsAt(j, pts, k) ==
    jac_ortho_basis_at_mp(insts[j].name, insts[j].order, promote(pts)[k].c)

RECURSIVE SumNum(_)
SumNum(xs) == IF xs = <<>> THEN Zero ELSE Add(Head(xs), SumNum(Tail(xs)))

\* C2: for a basis built with point set S whose Vandermonde matrix is square
\* and nonsingular, nodal_basis_at(S) is the identity matrix.
C2_NodalIdentityAtNodes ==
    \A j \in DOMAIN insts :
       ( /\ last.op = "nodal_basis_at" /\ last.inst = j
         /\ last.epts = heap[insts[j].pts]
         /\ IsSquare(last.V) /\ ~IsSingular(last.V) )
       => last.val = Identity(Len(last.epts))

\* the order-2 quadrilateral on its four corners
C2_Witness ==
    /\ last.op = "nodal_basis_at"
    /\ insts[1].name = "quad" /\ insts[1].order = 2
    /\ last.epts = heap[insts[1].pts]
    /\ last.V.shape = <<4, 4>>
    /\ last.val = Identity(4)

\* C4 as stated: vdm[k, i] is basis function i at point k of the defining
\* point set (rows are points, columns basis functions).
C4_VdmRowsArePoints ==
    \A j \in DOMAIN insts :
       (last.op = "vdm" /\ last.inst = j /\ heap[insts[j].pts] # <<>>)
       => /\ last.val.err = "none"
          /\ last.val.shape = <<Len(heap[insts[j].pts]),
                                Len(ValuesAt(j, heap[insts[j].pts], 1))>>
          /\ \A k \in 1..last.val.shape[1], i \in 1..last.val.shape[2] :
                last.val.v[k][i] =
                   ChopNum(ValuesAt(j, heap[insts[j].pts], k)[i])

\* C4 (amended): vdm is ortho_basis_at(self.pts) as it stands, rows basis
\* functions and columns points: vdm[i, k] is the chopped value of basis
\* function i at point k of the defining point set; with an empty point
\* list it is the empty array of one axis.
C4_VdmRowsAreBasisFunctions ==
    \A j \in DOMAIN insts :
       (last.op = "vdm" /\ last.inst = j)
       => IF heap[insts[j].pts] = <<>> THEN last.val = Arr1(<<>>)
          ELSE /\ last.val.err = "none"
               /\ last.val.shape = <<Len(ValuesAt(j, heap[insts[j].pts], 1)),
                                     Len(heap[insts[j].pts])>>
               /\ \A i \in 1..last.val.shape[1], k \in 1..last.val.shape[2] :
                     last.val.v[i][k] =
                        ChopNum(ValuesAt(j, heap[insts[j].pts], k)[i])

\* the order-2 line on three points: two rows, three columns
C4_Witness ==
    /\ last.op = "vdm"
    /\ insts[1].name = "line" /\ insts[1].order = 2
    /\ Len(heap[insts[1].pts]) = 3
    /\ last.val.shape = <<2, 3>>
    /\ last.val.v[2] = <<Neg(SqrtHalf(1)), Zero, SqrtHalf(1)>>

AgainstVdm(V, i, X) ==
    SumNum([n \in 1..Len(X) |-> Mul(V.v[i][n], X[n])])

LineOrder2ThreePoints(j) ==
    /\ insts[j].name = "line" /\ insts[j].order = 2
    /\ heap[insts[j].pts] = GridPts("line", 3)
    /\ last.inst = j /\ last.epts = GridPts("line", 3)

\* the two orthonormal Legendre functions of degree 0 and 1 at -1, 0, 1
TwoFunctionsAtThreePoints ==
    /\ last.val.err = "none"
    /\ last.val.shape = <<2, 3>>
    /\ last.val.v = << <<SqrtHalf(0), SqrtHalf(0), SqrtHalf(0)>>,
                       <<Neg(SqrtHalf(1)), Zero, SqrtHalf(1)>> >>

\* C8 as stated: for the line of order 2 and points [-1, 0, 1],
\* ortho_basis_at gives two basis functions at the three points and
\* nodal_basis_at completes with the 3 x 3 identity.
C8_LineNodalIsIdentity ==
    \A j \in DOMAIN insts :
       LineOrder2ThreePoints(j)
       => /\ last.op = "ortho_basis_at" => TwoFunctionsAtThreePoints
          /\ last.op = "nodal_basis_at" => last.val = Identity(3)

\* C8 (amended): for the line of order 2 and points [-1, 0, 1],
\* ortho_basis_at gives two basis functions (degrees 0 and 1) at the three
\* points, the Vandermonde matrix is 2 x 3, and nodal_basis_at raises
\* LinAlgError instead of returning a matrix.
C8_LineNodalRaises ==
    \A j \in DOMAIN insts :
       LineOrder2ThreePoints(j)
       => /\ last.op = "ortho_basis_at" => TwoFunctionsAtThreePoints
          /\ last.op = "nodal_basis_at" =>
                /\ last.V.shape = <<2, 3>>
                /\ last.val.err = "LinAlgError"

C8_Witness ==
    /\ LineOrder2ThreePoints(1)
    /\ last.op = "nodal_basis_at"
    /\ last.val.err = "LinAlgError"

(***************************************************************************)
(* Claims checked under SpecAlias                                          *)
(***************************************************************************)
\* C3: on one basis, over any sequence of vdm, nodal_basis_at and
\* jac_nodal_basis_at calls, the body of vdm runs at most once, on the first
\* request, every request returns the stored matrix, and nothing changes or
\* removes it, reassigning pts or order included.
C3_VdmComputedOnce ==
    /\ [](\A i \in DOMAIN insts :
             /\ ncomp[i] <= 1
             /\ insts[i].has_vdm <=> ncomp[i] = 1
             /\ (last.inst = i /\ last.op \in VdmOps)
                => (insts[i].has_vdm /\ last.V = insts[i].vdm))
    /\ [][\A i \in DOMAIN insts :
             insts[i].has_vdm
             => /\ insts'[i].has_vdm
                /\ insts'[i].vdm = insts[i].vdm
                /\ ncomp'[i] = ncomp[i]]_vars

\* nodal_basis_at is given the stored matrix after pts or order changed
\* under it: the body of vdm would now give another one
C3_Witness ==
    \E i \in DOMAIN insts :
       /\ last.op = "nodal_basis_at" /\ last.inst = i
       /\ ncomp[i] = 1
       /\ last.V = insts[i].vdm
       /\ insts[i].vdm # vdm(i)

\* C7 as stated: no operation on one basis changes the pts, order or
\* Vandermonde matrix observed through another.
C7_NoSharedState ==
    [][\A b \in DOMAIN insts :
          b # last'.inst
          => /\ heap'[insts'[b].pts] = heap[insts[b].pts]
             /\ insts'[b] = insts[b]]_vars

(***************************************************************************)
(* Claims checked under SpecThreads                                        *)
(***************************************************************************)
\* C10: whatever the interleaving, every thread that read self.vdm holds a
\* whole matrix equal to ortho_basis_at(self.pts), and so does the instance
\* once the attribute is there; the body may run more than once.
C10_ReadersGetFullMatrix ==
    \E full \in {vdm(1)} :
       /\ full.err = "none"
       /\ \A t \in DOMAIN thr :
             thr[t].pc \in {"use", "done"} => thr[t].V = full
       /\ insts[1].has_vdm => insts[1].vdm = full

\* every thread is through, the body ran more than once, and a thread that
\* called nodal_basis_at got the identity
C10_Witness ==
    /\ \A t \in DOMAIN thr : thr[t].pc = "done"
    /\ ncomp[1] >= 2
    /\ \E t \in DOMAIN thr :
          /\ thr[t].op = "nodal_basis_at"
          /\ thr[t].val = Identity(Len(heap[insts[1].pts]))

=============================================================================
